---- MODULE Spec2Model ----
(***************************************************************************)
(* Model of visualizer.py: the dependency-graph visualizer for Ubuntu      *)
(* packages.  One behaviour is one command-line run of main(): the         *)
(* recursive traversal get_deps inside fetch_dependencies, then            *)
(* build_puml_graph, save_puml_file and render_graph.                      *)
(*                                                                         *)
(* The external package index is the variable `source`: for every package  *)
(* the answer of `apt-cache depends <package>` (return code and the lines  *)
(* of its standard output).  The recursion of get_deps is an explicit      *)
(* stack of frames; the `for dep in package_deps` loop of a frame iterates *)
(* a Python set, whose order is not fixed, so the next dependency is any   *)
(* element of the frame's remaining set.  A call of get_deps takes two     *)
(* steps: the test and the marking of lines 25-27, then the query and the  *)
(* storing of lines 29-39.                                                 *)
(***************************************************************************)
EXTENDS Integers, Sequences, FiniteSets, Bags, TLC

\* ------------------------------------------------------------------ bounds

\* The package names of the index, in the order apt-cache lists them.
PackageList == <<"A", "B", "C", "D">>

Packages == {PackageList[i] : i \in DOMAIN PackageList}

\* Largest --depth argument tried; the smallest is -1.
MaxDepthBound == 3

\* Largest number of "Depends:" lines in the whole index.
MaxEdges == 4

\* Largest number of packages for which apt-cache fails.
MaxFailed == 1

Depths == -1 .. MaxDepthBound

\* The --package arguments tried.  The indexes tried are closed under
\* renaming the packages, so these stand for every start package.
Starts == {PackageList[1], PackageList[2]}

\* ------------------------------------------------------------ the index

\* One line of apt-cache's output: the header line naming the package, or a
\* line "  Depends: <name>".
HeaderLine(p) == [kind |-> "Package", name |-> p]

DependsLine(d) == [kind |-> "Depends", name |-> d]

\* The elements of S in the order of PackageList.
Listing(S) == SelectSeq(PackageList, LAMBDA x : x \in S)

\* The output of `apt-cache depends p` for a package with the dependencies S.
AptStdout(p, S) ==
    <<HeaderLine(p)>> \o [i \in 1 .. Cardinality(S) |-> DependsLine(Listing(S)[i])]

\* apt-cache's answer: nothing on standard output and return code 100 for a
\* package it cannot answer for.
AptAnswer(p, S, fails) ==
    IF fails THEN [returncode |-> 100, stdout |-> <<>>]
    ELSE [returncode |-> 0, stdout |-> AptStdout(p, S)]

\* subprocess.run(['apt-cache', 'depends', package], ...) (line 29).
RunAptCache(src, package) == src[package]

\* Lines 34-38 without the test of line 36.
ParseDependsAnyLine(stdout) == {stdout[i].name : i \in DOMAIN stdout}

\* Lines 34-38: the names of the lines that start with "Depends:".
ParseDepends(stdout) ==
    {stdout[i].name : i \in {j \in DOMAIN stdout : stdout[j].kind = "Depends"}}

\* --------------------------------------------------------------- state

VARIABLES
    source,         \* the package index: package -> apt-cache's answer
    package_name,   \* args.package
    max_depth,      \* args.depth
    pc,             \* position of main()
    visited,        \* fetch_dependencies.visited
    dependencies,   \* fetch_dependencies.dependencies: a dict as a function
    stack,          \* active get_deps frames, innermost last
    queries,        \* log of the apt-cache invocations: package and depth
    graph,          \* puml_content, the text build_puml_graph returned
    puml_file,      \* the intermediate .puml file
    render_calls,   \* log of the PlantUML invocations: the file as it was read
    stdout,         \* messages printed to standard output
    stderr,         \* messages printed to standard error
    exit_code       \* <<>> while the process runs, <<code>> once it has exited

vars == <<source, package_name, max_depth, pc, visited, dependencies, stack,
          queries, graph, puml_file, render_calls, stdout, stderr, exit_code>>

resolverVars == <<visited, dependencies, stack, queries>>

outputVars == <<graph, puml_file, render_calls, stdout, stderr, exit_code>>

argVars == <<source, package_name, max_depth>>

\* The dict `dependencies` without keys.
EmptyDict == [p \in {} |-> {}]

\* dependencies[package] = package_deps (line 39).
DictSet(d, k, v) == [p \in (DOMAIN d) \cup {k} |-> IF p = k THEN v ELSE d[p]]

\* No text yet: puml_content before line 109.
NoText == [head |-> "", edges |-> EmptyBag, tail |-> ""]

\* The .puml file before save_puml_file has created it.
NoFile == [exists |-> FALSE, content |-> NoText]

\* The pairs (package, dependency) an index declares: at most MaxEdges
\* Depends lines in all.
EdgeSets == {E \in SUBSET (Packages \X Packages) : Cardinality(E) <= MaxEdges}

DepsIn(E, p) == {e[2] : e \in {x \in E : x[1] = p}}

\* The packages a dependency path of E leads to from p.
RECURSIVE Closure(_, _)
Closure(E, S) ==
    LET T == S \cup UNION {DepsIn(E, p) : p \in S}
    IN  IF T = S THEN S ELSE Closure(E, T)

\* The indexes a run from `start` may meet.  apt-cache is only ever asked
\* about packages a dependency path from the start leads to, so the other
\* packages are left without Depends lines and without failures; at most
\* MaxFailed packages fail, and a failing package has no output at all.
IndexesFrom(start) ==
    UNION {{<<E, F>> : F \in {X \in SUBSET {p \in Closure(E, {start}) : DepsIn(E, p) = {}} :
                                  Cardinality(X) <= MaxFailed}}
           : E \in {X \in EdgeSets : \A e \in X : e[1] \in Closure(X, {start})}}

SourceOf(E, F) == [p \in Packages |-> AptAnswer(p, DepsIn(E, p), p \in F)]

Init ==
    /\ package_name \in Starts
    /\ \E x \in IndexesFrom(package_name) : source = SourceOf(x[1], x[2])
    /\ max_depth \in Depths
    /\ pc = "fetch_dependencies"
    /\ visited = {}
    /\ dependencies = EmptyDict
    /\ stack = <<>>
    /\ queries = <<>>
    /\ graph = NoText
    /\ puml_file = NoFile
    /\ render_calls = <<>>
    /\ stdout = <<>>
    /\ stderr = <<>>
    /\ exit_code = <<>>

\* ------------------------------------------------------- the resolver

\* Line 25 without its test of the visited set.
EarlyReturnDepthOnly(package, current_depth, md, vis) == current_depth > md

\* Line 25 with >= in place of >.
EarlyReturnStrict(package, current_depth, md, vis) ==
    current_depth >= md \/ package \in vis

\* Line 25 without its test of the depth.
EarlyReturnVisitedOnly(package, current_depth, md, vis) == package \in vis

\* Line 25 with the depth bound off by one.
EarlyReturnOffByOne(package, current_depth, md, vis) ==
    current_depth > md + 1 \/ package \in vis

\* Line 25: the condition under which get_deps returns at once.
EarlyReturn(package, current_depth, md, vis) ==
    current_depth > md \/ package \in vis

\* Line 27 left out.
MarkVisitedForgets(vis, package) == vis

\* Line 27.
MarkVisited(vis, package) == vis \cup {package}

\* One call get_deps(package, current_depth) made with the frames `below`
\* active, up to line 27: the call returns at once, or marks the package
\* and goes on to ask apt-cache.  The new frame has no package_deps yet.
GetDeps(package, current_depth, below) ==
    /\ IF EarlyReturn(package, current_depth, max_depth, visited)
       THEN /\ stack' = below
            /\ pc' = "get_deps"
            /\ UNCHANGED visited
       ELSE /\ visited' = MarkVisited(visited, package)
            /\ stack' = Append(below, [package |-> package,
                                       current_depth |-> current_depth,
                                       todo |-> {}])
            /\ pc' = "apt_cache"
    /\ UNCHANGED <<dependencies, queries>>

\* Line 44: fetch_dependencies calls get_deps(package_name, 1).
FetchDependencies ==
    /\ pc = "fetch_dependencies"
    /\ GetDeps(package_name, 1, <<>>)
    /\ UNCHANGED <<argVars, outputVars>>

Top == stack[Len(stack)]

\* Lines 29-39 giving up the whole traversal when apt-cache fails, as they
\* would with subprocess.run(..., check=True) caught around line 44.
GetDepsQueryRaising ==
    /\ pc = "apt_cache"
    /\ LET result == RunAptCache(source, Top.package)
           package_deps == ParseDepends(result.stdout)
       IN  /\ queries' = Append(queries, [package |-> Top.package,
                                          depth |-> Top.current_depth])
           /\ IF result.returncode # 0
              THEN /\ stack' = <<>>
                   /\ UNCHANGED dependencies
              ELSE /\ dependencies' = DictSet(dependencies, Top.package, package_deps)
                   /\ stack' = [stack EXCEPT ![Len(stack)].todo = package_deps]
    /\ pc' = "get_deps"
    /\ UNCHANGED <<visited, argVars, outputVars>>

\* Lines 29-39 storing nothing for a package without dependencies.
GetDepsQuerySkipsEmpty ==
    /\ pc = "apt_cache"
    /\ LET result == RunAptCache(source, Top.package)
           package_deps == ParseDepends(result.stdout)
       IN  /\ queries' = Append(queries, [package |-> Top.package,
                                          depth |-> Top.current_depth])
           /\ dependencies' = IF package_deps = {} THEN dependencies
                              ELSE DictSet(dependencies, Top.package, package_deps)
           /\ stack' = [stack EXCEPT ![Len(stack)].todo = package_deps]
    /\ pc' = "get_deps"
    /\ UNCHANGED <<visited, argVars, outputVars>>

\* Lines 29-39 of the innermost call: apt-cache is run for the package, the
\* Depends lines of its output are collected and stored under the package.
GetDepsQuery ==
    /\ pc = "apt_cache"
    /\ LET result == RunAptCache(source, Top.package)
           package_deps == ParseDepends(result.stdout)
       IN  /\ queries' = Append(queries, [package |-> Top.package,
                                          depth |-> Top.current_depth])
           /\ dependencies' = DictSet(dependencies, Top.package, package_deps)
           /\ stack' = [stack EXCEPT ![Len(stack)].todo = package_deps]
    /\ pc' = "get_deps"
    /\ UNCHANGED <<visited, argVars, outputVars>>

\* Lines 41-42 leaving the loop after its first dependency.
GetDepsLoopFirstOnly ==
    /\ pc = "get_deps"
    /\ stack # <<>>
    /\ \E dep \in Top.todo :
          GetDeps(dep, Top.current_depth + 1,
                  [stack EXCEPT ![Len(stack)].todo = {}])
    /\ UNCHANGED <<argVars, outputVars>>

\* Lines 41-42: the loop of the innermost frame takes its next dependency,
\* in whatever order the set yields it, and calls get_deps on it.
GetDepsLoop ==
    /\ pc = "get_deps"
    /\ stack # <<>>
    /\ \E dep \in Top.todo :
          GetDeps(dep, Top.current_depth + 1,
                  [stack EXCEPT ![Len(stack)].todo = @ \ {dep}])
    /\ UNCHANGED <<argVars, outputVars>>

\* The loop of the innermost frame is exhausted: get_deps returns.
GetDepsReturn ==
    /\ pc = "get_deps"
    /\ stack # <<>>
    /\ Top.todo = {}
    /\ stack' = SubSeq(stack, 1, Len(stack) - 1)
    /\ UNCHANGED <<pc, visited, dependencies, queries, argVars, outputVars>>

\* Line 45 and lines 102-106: fetch_dependencies returns; main stops with
\* exit code 1 when the dict is empty.
MainCheck ==
    /\ pc = "get_deps"
    /\ stack = <<>>
    /\ IF dependencies = EmptyDict
       THEN /\ stderr' = Append(stderr, [msg |-> "No dependencies found", arg |-> package_name])
            /\ exit_code' = <<1>>
            /\ pc' = "exited"
       ELSE /\ pc' = "build_puml_graph"
            /\ UNCHANGED <<stderr, exit_code>>
    /\ UNCHANGED <<argVars, resolverVars, graph, puml_file, render_calls, stdout>>

\* ----------------------------------------------------- the serializer

\* The statement with the arrow drawn from the dependency to the package.
EdgeLineReversed(package, dep) == [from |-> dep, arrow |-> "-->", to |-> package]

\* Line 57: the edge statement "package" --> "dep".
EdgeLine(package, dep) == [from |-> package, arrow |-> "-->", to |-> dep]

\* Lines 56-57: the statements the inner loop adds for one item of the dict.
RECURSIVE ItemLines(_, _)
ItemLines(package, deps) ==
    IF deps = {} THEN EmptyBag
    ELSE LET dep == CHOOSE d \in deps : TRUE
         IN  SetToBag({EdgeLine(package, dep)}) (+) ItemLines(package, deps \ {dep})

\* Lines 55-57: the statements the outer loop adds for the items `keys`.
RECURSIVE EdgeLines(_, _)
EdgeLines(d, keys) ==
    IF keys = {} THEN EmptyBag
    ELSE LET package == CHOOSE k \in keys : TRUE
         IN  ItemLines(package, d[package]) (+) EdgeLines(d, keys \ {package})

\* build_puml_graph (lines 54-59).  The text is the start marker, the edge
\* statements and the end marker; the statements are kept as a bag, that is
\* up to their order, which the iteration of the dict's sets leaves open.
BuildPumlGraph(d) ==
    [head |-> "@startuml", edges |-> EdgeLines(d, DOMAIN d), tail |-> "@enduml"]

\* Line 109.
MainBuild ==
    /\ pc = "build_puml_graph"
    /\ graph' = BuildPumlGraph(dependencies)
    /\ pc' = "save_puml_file"
    /\ UNCHANGED <<argVars, resolverVars, puml_file, render_calls, stdout, stderr, exit_code>>

\* save_puml_file (lines 68-69): open(file_path, 'w') and write.
SavePumlFile(content) == [exists |-> TRUE, content |-> content]

\* Lines 112-113.
MainSave ==
    /\ pc = "save_puml_file"
    /\ puml_file' = SavePumlFile(graph)
    /\ pc' = "render_graph"
    /\ UNCHANGED <<argVars, resolverVars, graph, render_calls, stdout, stderr, exit_code>>

\* The statuses PlantUML may return.
RendererStatuses == {0, 1}

\* render_graph ignoring PlantUML's status.
RenderStatusIgnored(returncode) == FALSE

\* Lines 83-86: what render_graph does with PlantUML's status.
RenderFailed(returncode) == returncode # 0

\* render_graph removing the .puml file when PlantUML fails.
RenderGraphCleanup ==
    /\ pc = "render_graph"
    /\ \E returncode \in RendererStatuses :
          /\ render_calls' = Append(render_calls,
                                    [input |-> puml_file, returncode |-> returncode])
          /\ IF RenderFailed(returncode)
             THEN /\ stderr' = Append(stderr, [msg |-> "Error during PlantUML rendering",
                                               arg |-> "stderr of PlantUML"])
                  /\ exit_code' = <<1>>
                  /\ puml_file' = NoFile
                  /\ pc' = "exited"
             ELSE /\ pc' = "print_success"
                  /\ UNCHANGED <<stderr, exit_code, puml_file>>
    /\ UNCHANGED <<argVars, resolverVars, graph, stdout>>

\* render_graph (lines 79-86), called at line 116: PlantUML runs on the
\* .puml file; a non-zero status is reported and ends the process.
RenderGraph ==
    /\ pc = "render_graph"
    /\ \E returncode \in RendererStatuses :
          /\ render_calls' = Append(render_calls,
                                    [input |-> puml_file, returncode |-> returncode])
          /\ IF RenderFailed(returncode)
             THEN /\ stderr' = Append(stderr, [msg |-> "Error during PlantUML rendering",
                                               arg |-> "stderr of PlantUML"])
                  /\ exit_code' = <<1>>
                  /\ pc' = "exited"
             ELSE /\ pc' = "print_success"
                  /\ UNCHANGED <<stderr, exit_code>>
    /\ UNCHANGED <<argVars, resolverVars, graph, puml_file, stdout>>

\* Line 118, and the normal end of the process.
MainSuccess ==
    /\ pc = "print_success"
    /\ stdout' = Append(stdout, [msg |-> "Graph successfully saved to", arg |-> "args.output"])
    /\ exit_code' = <<0>>
    /\ pc' = "exited"
    /\ UNCHANGED <<argVars, resolverVars, graph, puml_file, render_calls, stderr>>

Next ==
    \/ FetchDependencies
    \/ GetDepsQuery
    \/ GetDepsLoop
    \/ GetDepsReturn
    \/ MainCheck
    \/ MainBuild
    \/ MainSave
    \/ RenderGraph
    \/ MainSuccess

Spec == Init /\ [][Next]_vars

\* The run of the single thread goes on while a step is possible.
FairSpec == Spec /\ WF_vars(Next)

\* Runs with a --depth beyond the number of packages.
InitDeep ==
    /\ package_name \in Starts
    /\ \E x \in IndexesFrom(package_name) : source = SourceOf(x[1], x[2])
    /\ max_depth \in MaxDepthBound + 1 .. MaxDepthBound + 2
    /\ pc = "fetch_dependencies"
    /\ visited = {}
    /\ dependencies = EmptyDict
    /\ stack = <<>>
    /\ queries = <<>>
    /\ graph = NoText
    /\ puml_file = NoFile
    /\ render_calls = <<>>
    /\ stdout = <<>>
    /\ stderr = <<>>
    /\ exit_code = <<>>

DeepSpec == InitDeep /\ [][Next]_vars

\* Line 15: the dict a call of fetch_dependencies starts with.
FreshDependencies == EmptyDict

\* The visited set kept from the call before, as a module-level set or a
\* mutable default argument would keep it.
StaleVisited == visited

\* Line 16: the visited set a call of fetch_dependencies starts with.
FreshVisited == {}

\* Lines 15-16 of a further call fetch_dependencies(package, depth, _) made
\* in the same process once the call before has returned: the call creates
\* its own dict and visited set.  The log of queries is kept per call.
FetchDependenciesAgain ==
    /\ pc = "get_deps"
    /\ stack = <<>>
    /\ package_name' \in Starts
    /\ max_depth' \in Depths
    /\ dependencies' = FreshDependencies
    /\ visited' = FreshVisited
    /\ queries' = <<>>
    /\ pc' = "fetch_dependencies"
    /\ UNCHANGED <<source, stack, outputVars>>

NextRepeat ==
    \/ FetchDependencies
    \/ GetDepsQuery
    \/ GetDepsLoop
    \/ GetDepsReturn
    \/ FetchDependenciesAgain

\* fetch_dependencies called again and again in one process.
RepeatSpec == Init /\ [][NextRepeat]_vars

\* build_puml_graph on its own, applied to any dict.
Dicts ==
    UNION {{[p \in K |-> DepsIn(E, p)] : E \in {X \in EdgeSets : \A e \in X : e[1] \in K}}
           : K \in SUBSET Packages}

InitSerialize ==
    /\ dependencies \in Dicts
    /\ source = SourceOf({}, {})
    /\ package_name = PackageList[1]
    /\ max_depth = 1
    /\ pc = "build_puml_graph"
    /\ visited = DOMAIN dependencies
    /\ stack = <<>>
    /\ queries = <<>>
    /\ graph = NoText
    /\ puml_file = NoFile
    /\ render_calls = <<>>
    /\ stdout = <<>>
    /\ stderr = <<>>
    /\ exit_code = <<>>

NextSerialize == MainBuild

SerializeSpec == InitSerialize /\ [][NextSerialize]_vars

\* ------------------------------------------- fetch_dependencies as a function

\* get_deps and its loop as a function of the index: the set of the states
\* (visited, dependencies) a call may end in, one for each order in which the
\* sets may be iterated.
RECURSIVE GetDepsAll(_, _, _, _, _), LoopAll(_, _, _, _, _)
GetDepsAll(src, md, st, package, current_depth) ==
    IF EarlyReturn(package, current_depth, md, st.visited) THEN {st}
    ELSE LET package_deps == ParseDepends(RunAptCache(src, package).stdout)
             entered == [visited |-> MarkVisited(st.visited, package),
                         dependencies |-> DictSet(st.dependencies, package, package_deps)]
         IN  LoopAll(src, md, {entered}, package_deps, current_depth + 1)

LoopAll(src, md, S, todo, depth) ==
    IF todo = {} THEN S
    ELSE UNION {LoopAll(src, md,
                        UNION {GetDepsAll(src, md, st, dep, depth) : st \in S},
                        todo \ {dep}, depth) : dep \in todo}

\* The dicts fetch_dependencies(start, md, _) may return over the index src.
FetchAll(src, start, md) ==
    {st.dependencies :
        st \in GetDepsAll(src, md, [visited |-> {}, dependencies |-> EmptyDict], start, 1)}

\* ------------------------------------------------------------ vocabulary

\* The traversal is over: get_deps(package_name, 1) has returned.
ResolveDone == pc # "fetch_dependencies" /\ stack = <<>>

Keys == DOMAIN dependencies

\* The direct dependencies the index declares for p.
Declared(p) ==
    {l.name : l \in {source[p].stdout[i] : i \in DOMAIN source[p].stdout} \cap
                    [kind : {"Depends"}, name : Packages]}

\* The index could not answer for p.
Fails(p) == source[p].returncode # 0

\* The packages some dependency path reaches at depth <= n, the start at depth 1.
RECURSIVE Within(_)
Within(n) ==
    IF n <= 0 THEN {}
    ELSE IF n = 1 THEN {package_name}
    ELSE LET W == Within(n - 1) IN W \cup UNION {Declared(p) : p \in W}

\* The packages apt-cache was run for.
Queried == {queries[i].package : i \in DOMAIN queries}

\* How often apt-cache was run for p, which is how often p was stored as a key.
TimesQueried(p) == Cardinality({i \in DOMAIN queries : queries[i].package = p})

\* ---------------------------------------------------------------- claims

\* C1: for every index, start package and max_depth >= 1, the dict returned
\* by fetch_dependencies has as a key every package that some dependency
\* path reaches at depth <= max_depth, the start package being at depth 1.
C1_CoversReachable ==
    (ResolveDone /\ max_depth >= 1) => Within(max_depth) \subseteq Keys

\* C2: for a fixed index, start package and max_depth the returned dict is
\* the same for every order in which the dependency sets are iterated: the
\* dict this run has produced is the only one any order produces.
C2_OrderIndependent ==
    ResolveDone => FetchAll(source, package_name, max_depth) = {dependencies}

\* C3: for any max_depth and any index over a finite set of packages,
\* cycles and self-dependencies included, the run of fetch_dependencies
\* comes to an end (the process exits) and no package is stored as a key
\* more than once.
C3_Terminates ==
    /\ <>(pc = "exited")
    /\ [](\A p \in Packages : TimesQueried(p) <= 1)

\* The run has ended over an index with a self-dependency inside a larger graph.
C3_Witness ==
    /\ pc = "exited"
    /\ max_depth >= 2
    /\ Cardinality(Keys) >= 2
    /\ \E p \in Keys : p \in dependencies[p]

\* C4: if the index cannot answer for the start package, the run ends with
\* the empty-graph error and exit code 1, writes no intermediate file and
\* never invokes the renderer.
C4_StartFailureReported ==
    Fails(package_name) =>
        /\ ~puml_file.exists
        /\ render_calls = <<>>
        /\ pc = "exited" =>
              /\ exit_code = <<1>>
              /\ \E i \in DOMAIN stderr : stderr[i].msg = "No dependencies found"

\* The index with every failing package other than the start answered with
\* no dependencies instead.
Healed(src) ==
    [p \in Packages |->
        IF src[p].returncode # 0 /\ p # package_name
        THEN AptAnswer(p, {}, FALSE) ELSE src[p]]

\* C5: a package other than the start for which the index fails is stored
\* as a key with the empty set, and the traversal goes on: the dict returned
\* is one that the same traversal returns over the index in which these
\* packages have no dependencies.
C5_FailureTolerated ==
    ResolveDone =>
        /\ \A p \in Queried \ {package_name} :
              Fails(p) => (p \in Keys /\ dependencies[p] = {})
        /\ dependencies \in FetchAll(Healed(source), package_name, max_depth)

\* A failing package other than the start was queried, and another package
\* was queried after it.
C5_Witness ==
    /\ ResolveDone
    /\ \E i \in DOMAIN queries :
          /\ Fails(queries[i].package)
          /\ queries[i].package # package_name
          /\ i < Len(queries)

\* C6 as stated: with max_depth = 1 the dict has exactly one key, the start
\* package, mapped to its direct dependencies, and none of these
\* dependencies is a key.
C6_DepthOneNoDependencyIsKey ==
    (ResolveDone /\ max_depth = 1) =>
        /\ Keys = {package_name}
        /\ dependencies[package_name] = Declared(package_name)
        /\ \A d \in dependencies[package_name] : d \notin Keys

\* C6 amended: with max_depth = 1 the dict has exactly one key, the start
\* package, mapped to its direct dependencies, and none of these
\* dependencies other than the start package itself is a key.
C6_DepthOne ==
    (ResolveDone /\ max_depth = 1) =>
        /\ Keys = {package_name}
        /\ dependencies[package_name] = Declared(package_name)
        /\ \A d \in dependencies[package_name] \ {package_name} : d \notin Keys

\* A traversal with max_depth = 1 is over; the start package depends on
\* itself and on two other packages.
C6_Witness ==
    /\ ResolveDone
    /\ max_depth = 1
    /\ package_name \in dependencies[package_name]
    /\ Cardinality(dependencies[package_name]) >= 3

\* C7: during one run apt-cache is run at most once for each package, and
\* PlantUML is invoked at most once.
C7_NoRequery ==
    /\ \A i, j \in DOMAIN queries :
          queries[i].package = queries[j].package => i = j
    /\ Len(render_calls) <= 1

\* The run has ended after PlantUML ran; two packages that depend on each
\* other were both expanded, so a visited package was met again.
C7_Witness ==
    /\ pc = "exited"
    /\ Len(render_calls) = 1
    /\ max_depth >= 3
    /\ \E p, q \in Keys : p # q /\ p \in dependencies[q] /\ q \in dependencies[p]

\* PlantUML was run and returned a non-zero status.
RendererFailed == \E i \in DOMAIN render_calls : render_calls[i].returncode # 0

C9_FileBeforeRender ==
    /\ \A i \in DOMAIN render_calls :
          /\ render_calls[i].input.exists
          /\ render_calls[i].input.content = BuildPumlGraph(dependencies)
    /\ (pc = "exited" /\ RendererFailed) =>
          (puml_file.exists /\ puml_file.content = graph
             /\ graph = BuildPumlGraph(dependencies))

\* The process has exited after PlantUML failed on a file with several edges.
C9_Witness ==
    /\ pc = "exited"
    /\ RendererFailed
    /\ BagCardinality(puml_file.content.edges) >= 2

RECURSIVE SumOfSizes(_, _)
SumOfSizes(d, keys) ==
    IF keys = {} THEN 0
    ELSE LET k == CHOOSE x \in keys : TRUE
         IN  Cardinality(d[k]) + SumOfSizes(d, keys \ {k})

\* C10: for every dict, the text of build_puml_graph holds exactly one edge
\* statement "p" --> "d" for each pair with d in the dict's set for p, no
\* other edge statement (none for a key with an empty set), and as many
\* edge statements as the sizes of the sets add up to.
C10_OneLinePerPair ==
    pc = "save_puml_file" =>
        /\ graph.head = "@startuml" /\ graph.tail = "@enduml"
        /\ \A p, d \in Packages :
              CopiesIn([from |-> p, arrow |-> "-->", to |-> d], graph.edges)
                 = IF p \in Keys /\ d \in dependencies[p] THEN 1 ELSE 0
        /\ BagToSet(graph.edges) \subseteq [from : Packages, arrow : {"-->"}, to : Packages]
        /\ BagCardinality(graph.edges) = SumOfSizes(dependencies, Keys)

\* A dict with an empty set, a set of several dependencies and two keys that
\* depend on each other has been serialized.
C10_Witness ==
    /\ pc = "save_puml_file"
    /\ \E p, q \in Keys :
          /\ dependencies[p] = {}
          /\ Cardinality(dependencies[q]) >= 2
    /\ \E p, q \in Keys : p # q /\ p \in dependencies[q] /\ q \in dependencies[p]

\* The index of the cycle scenario: A depends on B and B on A, asked from A.
CycleScenario ==
    /\ package_name = "A"
    /\ ~Fails("A") /\ ~Fails("B")
    /\ Declared("A") = {"B"}
    /\ Declared("B") = {"A"}

\* C11: over the index A -> {B}, B -> {A} with max_depth = 5 the traversal
\* from A returns exactly {A: {B}, B: {A}}: two keys, stored by two
\* queries, and nothing more.
C11_CycleScenario ==
    (ResolveDone /\ CycleScenario /\ max_depth = 5) =>
        /\ dependencies = [p \in {"A", "B"} |-> IF p = "A" THEN {"B"} ELSE {"A"}]
        /\ Len(queries) = 2

\* The traversal of the cycle scenario with max_depth = 5 is over.
C11_Witness ==
    /\ ResolveDone
    /\ CycleScenario
    /\ max_depth = 5
    /\ Keys = {"A", "B"}

\* The index of the scenario app -> {libfoo, libbar}, libfoo -> {},
\* libbar -> {libfoo}, asked from app with max_depth = 2; A stands for app,
\* B for libfoo and C for libbar.
AppScenario ==
    /\ package_name = "A"
    /\ max_depth = 2
    /\ ~Fails("A") /\ ~Fails("B") /\ ~Fails("C")
    /\ Declared("A") = {"B", "C"}
    /\ Declared("B") = {}
    /\ Declared("C") = {"B"}

\* The dict {app: {libfoo, libbar}, libfoo: {}, libbar: {libfoo}}.
AppGraph ==
    [p \in {"A", "B", "C"} |->
        IF p = "A" THEN {"B", "C"} ELSE IF p = "B" THEN {} ELSE {"B"}]

\* C12: in the app scenario the traversal returns exactly
\* {app: {libfoo, libbar}, libfoo: {}, libbar: {libfoo}} for every order of
\* iteration of the sets, and the text built from it has exactly 3 edge
\* statements.
C12_AppScenario ==
    AppScenario =>
        /\ FetchAll(source, package_name, max_depth) = {AppGraph}
        /\ ResolveDone => dependencies = AppGraph
        /\ pc \in {"save_puml_file", "render_graph", "print_success", "exited"} =>
              BagCardinality(graph.edges) = 3

\* The run of the app scenario has ended after the text was built and rendered.
C12_Witness ==
    /\ AppScenario
    /\ pc = "exited"
    /\ exit_code = <<0>>
    /\ BagCardinality(puml_file.content.edges) = 3

\* The packages that occur in the dependency set of some key.
Referenced == UNION {dependencies[p] : p \in Keys}

\* C13: every package the traversal has expanded and for which the index
\* returned no dependencies is a key mapped to the empty set; a package
\* that is only referenced as a dependency and was never visited is no key.
C13_EmptySetKept ==
    /\ \A p \in Queried : Declared(p) = {} => (p \in Keys /\ dependencies[p] = {})
    /\ \A p \in Packages \ visited : p \notin Keys

\* The traversal is over with a key mapped to the empty set and with a
\* referenced package that was never visited.
C13_Witness ==
    /\ ResolveDone
    /\ \E p \in Keys : dependencies[p] = {} /\ ~Fails(p)
    /\ \E q \in Referenced : q \notin visited

\* C14: when max_depth is 0 or negative, fetch_dependencies returns the
\* empty dict and apt-cache is never run.
C14_NoDepthNoQuery ==
    max_depth <= 0 =>
        /\ dependencies = EmptyDict
        /\ queries = <<>>
        /\ visited = {}

\* A run with max_depth <= 0 has ended with the empty-graph error.
C14_Witness ==
    /\ max_depth <= 0
    /\ pc = "exited"
    /\ exit_code = <<1>>

\* C15: the depth of the active recursion never exceeds max_depth: the
\* frame at position i of the stack runs at depth i <= max_depth, and no
\* package is queried or stored at a depth greater than max_depth.
C15_DepthBounded ==
    /\ \A i \in DOMAIN stack : stack[i].current_depth = i /\ i <= max_depth
    /\ \A i \in DOMAIN queries :
          queries[i].depth >= 1 /\ queries[i].depth <= max_depth

\* The recursion is at depth max_depth >= 3 with a dependency left that the
\* bound is about to cut off.
C15_Witness ==
    /\ pc = "get_deps"
    /\ max_depth >= 3
    /\ Len(stack) = max_depth
    /\ Len(queries) = max_depth
    /\ Top.todo \ visited # {}

\* C16: every call of fetch_dependencies starts from an empty dict and an
\* empty visited set, and what it returns is a dict that a call with the
\* same start package, max_depth and index returns in a process of its
\* own: nothing of an earlier call is read.
C16_FreshPerCall ==
    /\ pc = "fetch_dependencies" => (visited = {} /\ dependencies = EmptyDict)
    /\ ResolveDone => dependencies \in FetchAll(source, package_name, max_depth)

\* A call from B has returned in a process whose first call started from A:
\* the index gives A a dependency on B although no path leads from B to A,
\* and only the index of a run started from A does that.
C16_Witness ==
    /\ ResolveDone
    /\ package_name = "B"
    /\ "B" \in Declared("A")
    /\ "A" \notin Closure({<<p, d>> \in Packages \X Packages : d \in Declared(p)}, {"B"})
    /\ Cardinality(Keys) >= 2

\* The dependency names of p in the order in which the index returns them.
ListedDeps(p) ==
    LET lines == SelectSeq(source[p].stdout, LAMBDA l : l.kind = "Depends")
    IN  [i \in DOMAIN lines |-> lines[i].name]

\* C17: the loop of every active call recurses into the dependencies in
\* the order in which the index returned them: the dependencies it has not
\* taken yet are always the last ones of the returned list.
C17_ListedOrder ==
    \A i \in DOMAIN stack :
        LET listed == ListedDeps(stack[i].package)
        IN  \E k \in 0 .. Len(listed) :
               stack[i].todo = {listed[j] : j \in k + 1 .. Len(listed)}

\* main has printed the empty-graph error of line 105.
EmptyGraphReported == \E i \in DOMAIN stderr : stderr[i].msg = "No dependencies found"

\* C18: for every max_depth >= 1 the start package is a key of the returned
\* dict whatever the index answers for it, a failure or an empty answer
\* included, so the dict is not empty and the empty-graph exit of main is
\* taken only when max_depth <= 0.
C18_StartIsKey ==
    /\ (ResolveDone /\ max_depth >= 1) => package_name \in Keys
    /\ EmptyGraphReported => max_depth <= 0

\* A run with max_depth >= 1 whose start package apt-cache could not answer
\* for has ended with exit code 0.
C18_Witness ==
    /\ pc = "exited"
    /\ max_depth >= 1
    /\ Fails(package_name)
    /\ exit_code = <<0>>
    /\ dependencies[package_name] = {}

\* C19: once the traversal is over, every dependency of a package expanded
\* at a depth below max_depth is a key, and a package that is referenced
\* but is no key is referenced only by packages expanded at depth max_depth.
C19_CutOnlyAtBound ==
    ResolveDone =>
        /\ \A i \in DOMAIN queries :
              queries[i].depth < max_depth =>
                  dependencies[queries[i].package] \subseteq Keys
        /\ \A d \in Referenced \ Keys : \A i \in DOMAIN queries :
              d \in dependencies[queries[i].package] => queries[i].depth = max_depth

\* The traversal is over; a package expanded below the bound has several
\* dependencies, and some referenced package is no key.
C19_Witness ==
    /\ ResolveDone
    /\ Referenced \ Keys # {}
    /\ \E i \in DOMAIN queries :
          /\ queries[i].depth < max_depth
          /\ Cardinality(dependencies[queries[i].package]) >= 2

\* C20: during the traversal every key is in the visited set, and the
\* visited set holds at most one package more, the one apt-cache is being
\* asked about; once the traversal is over the keys are the visited
\* packages, each queried once and mapped to exactly the set of names the
\* index returned for it.
C20_KeysAreVisited ==
    /\ Keys \subseteq visited
    /\ visited \ Keys \subseteq (IF pc = "apt_cache" THEN {Top.package} ELSE {})
    /\ ResolveDone =>
          /\ Keys = visited
          /\ \A p \in Keys : dependencies[p] = Declared(p) /\ TimesQueried(p) = 1

\* apt-cache is being asked about a package that is visited and not yet a
\* key, while other packages are keys already.
C20_Witness ==
    /\ pc = "apt_cache"
    /\ visited \ Keys = {Top.package}
    /\ Cardinality(Keys) >= 2

====
